---- MODULE Spec2Model ----
(***************************************************************************)
(* Hotspot aggregation and safe-route scoring of the CrimeScope backend    *)
(* (services/prediction_service.py get_hotspots, services/route_service.py *)
(* calculate_safe_route) and the route comparison shown by RoutePlanner.   *)
(*                                                                         *)
(* Positions lie on one meridian and are integers in units of 100 m of arc,*)
(* so the great-circle distance of two positions is the absolute value of  *)
(* their difference; 0.5 km is 5 units.  A cluster is given by the number  *)
(* of crimes DBSCAN put under one label and by their mean latitude.        *)
(* A route is the sequence of positions the scoring loop reads from        *)
(* route_coords (it passes coord[0], coord[1] as latitude, longitude).     *)
(*                                                                         *)
(* The clustering itself (DBSCAN over the crimes of the last 30 days) is   *)
(* modelled on the same meridian, and the CrimeMap component (loadData and *)
(* the WebSocket handler, with the backend that stores and broadcasts a    *)
(* report) as a state machine of its own.                                  *)
(***************************************************************************)
EXTENDS Integers, Sequences, FiniteSets

VARIABLES
    crimes,       \* the crimes of the last 30 days, in the order of the query
    labels,       \* clustering.labels_: the DBSCAN label of each crime
    clusters,     \* the DBSCAN clusters of the last 30 days, in label order
    route,        \* route_coords: the geometry the routing provider returned
    direct_route, \* the direct geometry of a comparison
    radius,       \* request.avoid_crime_radius_km, in units of 100 m
    margin,       \* recommendation_margin of the comparison
    pc,           \* "request" before the call, afterwards the call that ran
    hotspots,     \* the value get_hotspots returned
    response,     \* the value calculate_safe_route returned
    comparison,   \* the value of the route comparison
    reports,      \* CrimeMap: the reports state, the list that is displayed
    loading,      \* CrimeMap: the loading state
    loads,        \* CrimeMap: the loadData calls in flight
    started,      \* CrimeMap: number of loadData calls so far
    ws,           \* new_report messages on the way to the WebSocket handler
    delivered,    \* the reports the handler has passed to onNewReport
    db_reports,   \* the reports stored by the backend, newest first
    al_mounted,   \* AlertsPanel: the panel is mounted
    al_now,       \* AlertsPanel: time since mount, in units of 10 s
    al_timer,     \* AlertsPanel: time until the interval fires, -1 without interval
    al_started,   \* AlertsPanel: number of loadAlerts calls so far
    al_inflight,  \* AlertsPanel: the loadAlerts calls in flight
    alerts,       \* AlertsPanel: the alerts state
    al_loading,   \* AlertsPanel: the loading state
    ws_conn,      \* CrimeMap: number of WebSocket connections opened so far
    ws_stale,     \* CrimeMap: a render has given WebSocketHandler a new onNewReport
    messages,     \* Chatbot: the messages state
    input,        \* Chatbot: the input state
    ch_loading,   \* Chatbot: the loading state (typing indicator)
    showFAQ,      \* Chatbot: the showFAQ state
    ch_inflight,  \* Chatbot: the chat requests in flight
    ch_started,   \* Chatbot: number of chat requests so far
    stats,        \* Dashboard: the stats state, 0 for null
    predictions,  \* Dashboard: the predictions state
    dash_hotspots,\* Dashboard: the hotspots state
    dash_loading, \* Dashboard: the loading state
    dash_req,     \* Dashboard: the three requests of the loadDashboardData in flight
    dash_loads,   \* Dashboard: number of loadDashboardData calls so far
    dash_errors,  \* Dashboard: number of loads that ended in the catch branch
    formData,     \* RoutePlanner: the formData state (positions on one meridian)
    selectedStartLocation,\* RoutePlanner: the start shown, with the position it names
    selectedEndLocation,\* RoutePlanner: the destination shown, with the position it names
    rp_pending,   \* RoutePlanner: the geolocation calls whose callbacks are pending
    rp_clicks,    \* RoutePlanner: number of Use Current Location clicks so far
    rf_open,      \* ReportForm: the form is shown (onClose has not been called)
    rf_form,      \* ReportForm: the formData state
    submitting,   \* ReportForm: the submitting state
    rf_calls,     \* ReportForm: the createReport calls in flight
    rf_started,   \* ReportForm: number of createReport calls so far
    rf_done,      \* ReportForm: the createReport calls settled, with their outcome
    rf_closes,    \* ReportForm: number of onClose calls made by handleSubmit
    rf_toast      \* ReportForm: the last toast shown

mapVars == <<reports, loading, loads, started, ws, delivered, db_reports, ws_conn, ws_stale>>

pipelineVars ==
    <<crimes, labels, clusters, route, direct_route, radius, margin, pc,
      hotspots, response, comparison>>

alertVars ==
    <<al_mounted, al_now, al_timer, al_started, al_inflight, alerts,
      al_loading>>

chatVars ==
    <<messages, input, ch_loading, showFAQ, ch_inflight, ch_started>>

dashVars ==
    <<stats, predictions, dash_hotspots, dash_loading, dash_req,
      dash_loads, dash_errors>>

plannerVars ==
    <<formData, selectedStartLocation, selectedEndLocation, rp_pending,
      rp_clicks>>

reportVars ==
    <<rf_open, rf_form, submitting, rf_calls, rf_started, rf_done,
      rf_closes, rf_toast>>

vars ==
    <<pipelineVars, mapVars, alertVars, chatVars, dashVars, plannerVars,
      reportVars>>

(* The variables of the other components. *)
outsidePipeline ==
    <<mapVars, alertVars, chatVars, dashVars, plannerVars, reportVars>>

outsideMap ==
    <<pipelineVars, alertVars, chatVars, dashVars, plannerVars,
      reportVars>>

outsideAlerts ==
    <<pipelineVars, mapVars, chatVars, dashVars, plannerVars, reportVars>>

outsideChat ==
    <<pipelineVars, mapVars, alertVars, dashVars, plannerVars,
      reportVars>>

outsideDashboard ==
    <<pipelineVars, mapVars, alertVars, chatVars, plannerVars,
      reportVars>>

outsidePlanner ==
    <<pipelineVars, mapVars, alertVars, chatVars, dashVars, reportVars>>

outsideReport ==
    <<pipelineVars, mapVars, alertVars, chatVars, dashVars, plannerVars>>

----------------------------------------------------------------------------
(* Bounds of the model *)

MaxClusters == 3
MaxManyClusters == 11
MaxHotspots == 3
MaxRoute == 4
MaxCmpRoute == 2
MaxPerPlace == 2
MaxCrimes == 11
MaxReports == 2
MaxLoads == 3
MaxTime == 7
MaxSends == 2
MaxMessages == 6
MaxDashLoads == 3
MaxGps == 1
MaxSubmits == 2

(* Program constants *)

ScaleFactor == 10
HighCount == 20
TopN == 10
StartScore == 100
ProximityKm == 5
Penalty == 10
MinuteFactor == 5
DefaultMargin == 10
RefreshInterval == 3

----------------------------------------------------------------------------
(* Helpers *)

Max(a, b) == IF a >= b THEN a ELSE b

Min(a, b) == IF a <= b THEN a ELSE b

Abs(x) == IF x >= 0 THEN x ELSE -x

BoundedSeq(S, lo, hi) == UNION {[1..n -> S] : n \in lo..hi}

----------------------------------------------------------------------------
(* get_hotspots *)

RiskScoreCapped(n) == Min(100, n * ScaleFactor)

RiskScore(n) == n * ScaleFactor

SeverityByRisk(n) ==
    IF RiskScore(n) >= 70 THEN "high"
    ELSE IF RiskScore(n) >= 40 THEN "medium" ELSE "low"

Severity(n) == IF n > HighCount THEN "high" ELSE "medium"

Hotspot(c) ==
    [latitude    |-> c.latitude,
     crime_count |-> c.crime_count,
     risk_score  |-> RiskScore(c.crime_count),
     severity    |-> Severity(c.crime_count)]

RECURSIVE Hotspots(_)
Hotspots(cs) ==
    IF cs = <<>> THEN <<>> ELSE <<Hotspot(Head(cs))>> \o Hotspots(Tail(cs))

(* sorted(hotspots, key=risk_score, reverse=True): a stable sort, elements
   of equal key keep the order they had. *)
RECURSIVE InsertUnstable(_, _)
InsertUnstable(h, s) ==
    IF s = <<>> THEN <<h>>
    ELSE IF Head(s).risk_score > h.risk_score
         THEN <<Head(s)>> \o InsertUnstable(h, Tail(s))
         ELSE <<h>> \o s

RECURSIVE Insert(_, _)
Insert(h, s) ==
    IF s = <<>> THEN <<h>>
    ELSE IF Head(s).risk_score >= h.risk_score
         THEN <<Head(s)>> \o Insert(h, Tail(s))
         ELSE <<h>> \o s

RECURSIVE sorted(_)
sorted(s) ==
    IF s = <<>> THEN <<>>
    ELSE Insert(s[Len(s)], sorted(SubSeq(s, 1, Len(s) - 1)))

TopAll(s) == s

Top(s) == SubSeq(s, 1, Min(TopN, Len(s)))

get_hotspots(cs) == Top(sorted(Hotspots(cs)))

----------------------------------------------------------------------------
(* calculate_safe_route *)

haversine_distance(lat1, lat2) == Abs(lat1 - lat2)

NearInclusive(coord, hotspot) ==
    haversine_distance(coord, hotspot.latitude) <= ProximityKm

Near(coord, hotspot) ==
    haversine_distance(coord, hotspot.latitude) < ProximityKm

(* The two loops of step 3.  acc.score is safety_score; acc.hits records the
   pairs <<route index, hotspot index>> for which the penalty was taken. *)
RECURSIVE HotspotLoopOnce(_, _, _, _, _)
HotspotLoopOnce(acc, coords, j, hs, i) ==
    IF i > Len(hs) THEN acc
    ELSE HotspotLoopOnce(
            IF Near(coords[j], hs[i]) /\ ~(\E k \in 1..Len(coords) : <<k, i>> \in acc.hits)
            THEN [score |-> acc.score - Penalty, hits |-> acc.hits \cup {<<j, i>>}]
            ELSE acc,
            coords, j, hs, i + 1)

RECURSIVE HotspotLoop(_, _, _, _, _)
HotspotLoop(acc, coords, j, hs, i) ==
    IF i > Len(hs) THEN acc
    ELSE HotspotLoop(
            IF Near(coords[j], hs[i])
            THEN [score |-> acc.score - Penalty, hits |-> acc.hits \cup {<<j, i>>}]
            ELSE acc,
            coords, j, hs, i + 1)

RECURSIVE CoordLoop(_, _, _, _)
CoordLoop(acc, coords, j, hs) ==
    IF j > Len(coords) THEN acc
    ELSE CoordLoop(HotspotLoop(acc, coords, j, hs, 1), coords, j + 1, hs)

ClampNone(s) == s

ClampAbs(s) == Abs(s)

Clamp(s) == Max(0, s)

RECURSIVE PathLength(_)
PathLength(coords) ==
    IF Len(coords) < 2 THEN 0
    ELSE haversine_distance(coords[1], coords[2]) + PathLength(Tail(coords))

(* proximate_hotspots and avoided_crime_zones of the response: the hotspots
   whose least distance to the route is at most the supplied threshold,
   ordered by risk_score descending, then crime_count descending, then
   latitude ascending, and the number of the others. *)
RECURSIVE ProximateInInputOrder(_, _, _)
ProximateInInputOrder(coords, hs, threshold) ==
    IF hs = <<>> THEN <<>>
    ELSE (IF \E j \in 1..Len(coords) :
                haversine_distance(coords[j], Head(hs).latitude) <= threshold
          THEN <<Head(hs)>> ELSE <<>>)
         \o ProximateInInputOrder(coords, Tail(hs), threshold)

RankBefore(a, b) ==
    \/ a.risk_score > b.risk_score
    \/ /\ a.risk_score = b.risk_score
       /\ \/ a.crime_count > b.crime_count
          \/ a.crime_count = b.crime_count /\ a.latitude <= b.latitude

RECURSIVE RankInsert(_, _)
RankInsert(h, s) ==
    IF s = <<>> THEN <<h>>
    ELSE IF RankBefore(h, Head(s)) THEN <<h>> \o s
         ELSE <<Head(s)>> \o RankInsert(h, Tail(s))

RECURSIVE RankSort(_)
RankSort(s) == IF s = <<>> THEN <<>> ELSE RankInsert(Head(s), RankSort(Tail(s)))

(* The proximate hotspots, left in the order of the hotspot sequence. *)
ProximateAsSupplied(coords, hs, threshold) ==
    ProximateInInputOrder(coords, hs, threshold)

ProximateHotspots(coords, hs, threshold) ==
    RankSort(ProximateInInputOrder(coords, hs, threshold))

AvoidedZonesOfHits(hs, proximate, hits) == Len(hs) - Cardinality(hits)

AvoidedZones(hs, proximate, hits) == Len(hs) - Len(proximate)

(* The response.  hits and hotspots are the loop's locals, kept for the
   properties below; SafeRouteResponse has no such fields.  Its route field
   (the geometry, pairs swapped for the map) is the input and is left out.
   distance_km is in units of 100 m, so distance_km * 5 is divided by 10. *)
calculate_safe_route(cs, coords, threshold) ==
    LET hs   == get_hotspots(cs)
        acc  == CoordLoop([score |-> StartScore, hits |-> {}], coords, 1, hs)
        prox == ProximateHotspots(coords, hs, threshold)
    IN  [safety_score        |-> Clamp(acc.score),
         hits                |-> acc.hits,
         hotspots            |-> hs,
         distance_km         |-> PathLength(coords),
         duration_minutes    |-> (PathLength(coords) * MinuteFactor) \div 10,
         proximate_hotspots  |-> prox,
         avoided_crime_zones |-> AvoidedZones(hs, prox, acc.hits)]

----------------------------------------------------------------------------
(* Route comparison *)

RecommendStrict(direct, adjusted, m) ==
    IF adjusted.safety_score - direct.safety_score > m
    THEN "prefer_adjusted" ELSE "either_ok"

RecommendAnyGain(direct, adjusted, m) ==
    IF adjusted.safety_score - direct.safety_score >= 0
    THEN "prefer_adjusted" ELSE "either_ok"

Recommend(direct, adjusted, m) ==
    IF adjusted.safety_score - direct.safety_score >= m
    THEN "prefer_adjusted" ELSE "either_ok"

compare(cs, direct, adjusted, threshold, m) ==
    LET d == calculate_safe_route(cs, direct, threshold)
        a == calculate_safe_route(cs, adjusted, threshold)
    IN  [direct_route |-> d, safe_route |-> a,
         recommendation |-> Recommend(d, a, m)]

----------------------------------------------------------------------------
(* DBSCAN(eps=0.01, min_samples=5).fit(coords) and the loop over its labels.
   0.01 degrees of latitude are 1.112 km, 11 units of 100 m.  A crime is a
   row with its id and its position; labels are 0, 1, ... in the order the
   clusters are found, and -1 for noise. *)

eps == 11

min_samples == 5

CrimeIdx(cr) == 1..Len(cr)

(* Every sample counts as a core sample. *)
EverySampleCore(cr, e, m) == CrimeIdx(cr)

(* A sample is a core sample when at least m other samples lie within e. *)
CoreSamplesOthers(cr, e, m) ==
    {i \in CrimeIdx(cr) :
        Cardinality({j \in CrimeIdx(cr) \ {i} :
            Abs(cr[i].latitude - cr[j].latitude) <= e}) >= m}

(* A sample is a core sample when at least m samples, itself included, lie
   within e of it. *)
core_samples(cr, e, m) ==
    {i \in CrimeIdx(cr) :
        Cardinality({j \in CrimeIdx(cr) :
            Abs(cr[i].latitude - cr[j].latitude) <= e}) >= m}

(* One cluster: what can be reached from the members through the core
   samples among them, only one neighbourhood away. *)
ExpandOneStep(S, free, core, cr, e) ==
    S \cup {v \in free : \E u \in S \cap core :
                Abs(cr[u].latitude - cr[v].latitude) <= e}

(* One cluster, grown through every member, core sample or not. *)
RECURSIVE ExpandThroughAny(_, _, _, _, _)
ExpandThroughAny(S, free, core, cr, e) ==
    LET new == {v \in free \ S : \E u \in S :
                    Abs(cr[u].latitude - cr[v].latitude) <= e}
    IN  IF new = {} THEN S ELSE ExpandThroughAny(S \cup new, free, core, cr, e)

(* One cluster: the samples without a label that are reached from the seed
   through neighbourhoods of core samples. *)
RECURSIVE Expand(_, _, _, _, _)
Expand(S, free, core, cr, e) ==
    LET new == {v \in free \ S : \E u \in S \cap core :
                    Abs(cr[u].latitude - cr[v].latitude) <= e}
    IN  IF new = {} THEN S ELSE Expand(S \cup new, free, core, cr, e)

(* The scan over the samples in index order: a core sample that has no
   label yet seeds the next cluster. *)
RECURSIVE dbscan_inner(_, _, _, _, _, _)
dbscan_inner(i, lab, label_num, core, cr, e) ==
    IF i > Len(cr) THEN lab
    ELSE IF lab[i] # -1 \/ i \notin core
         THEN dbscan_inner(i + 1, lab, label_num, core, cr, e)
         ELSE LET S == Expand({i}, {v \in CrimeIdx(cr) : lab[v] = -1}, core, cr, e)
              IN  dbscan_inner(i + 1,
                               [v \in CrimeIdx(cr) |->
                                   IF v \in S THEN label_num ELSE lab[v]],
                               label_num + 1, core, cr, e)

DBSCAN(cr, e, m) ==
    dbscan_inner(1, [i \in CrimeIdx(cr) |-> -1], 0, core_samples(cr, e, m), cr, e)

(* for label in set(labels): if label == -1: continue *)
AllLabels(lab) == {lab[i] : i \in 1..Len(lab)}

ClusterLabels(lab) == {lab[i] : i \in 1..Len(lab)} \ {-1}

RECURSIVE SumLatitude(_, _)
SumLatitude(cr, I) ==
    IF I = {} THEN 0
    ELSE LET i == CHOOSE x \in I : TRUE
         IN  cr[i].latitude + SumLatitude(cr, I \ {i})

(* cluster_crimes of one label, with its size and its mean latitude
   (rounded down to the unit). *)
cluster_crimes(cr, lab, l) ==
    LET I == {i \in CrimeIdx(cr) : lab[i] = l}
    IN  [members |-> {cr[i].id : i \in I},
         crime_count |-> Cardinality(I),
         latitude |-> SumLatitude(cr, I) \div Cardinality(I)]

RECURSIVE LabelLoop(_, _, _)
LabelLoop(cr, lab, L) ==
    IF L = {} THEN <<>>
    ELSE LET l == CHOOSE x \in L : \A y \in L : x <= y
         IN  <<cluster_crimes(cr, lab, l)>> \o LabelLoop(cr, lab, L \ {l})

Clusters(cr, lab) == LabelLoop(cr, lab, ClusterLabels(lab))

----------------------------------------------------------------------------
(* Inputs *)

CrimeCounts == {5, 11, 20, 21}

Latitudes == {0, 6}

ClusterDomain == [crime_count : CrimeCounts, latitude : Latitudes]

ManyDomain == {[crime_count |-> 5, latitude |-> 0],
               [crime_count |-> 21, latitude |-> 6]}

RouteClusterDomain == [crime_count : {5, 21}, latitude : Latitudes]

RouteLatitudes == {0, 5, 13}

Radii == {-5, 0, 5, 10}

Margins == {-10, 0, DefaultMargin, 20}

(* Crimes are reported at a few places; the rows of one place follow each
   other in the query result, the places come in one of a few orders. *)
Places == <<-33, -22, -11, 0, 11, 22, 33>>

PlaceOrders ==
    {<<1, 2, 3, 4, 5, 6, 7>>, <<7, 6, 5, 4, 3, 2, 1>>,
     <<1, 7, 2, 6, 3, 5, 4>>, <<4, 3, 5, 2, 6, 1, 7>>}

(* Four places within 0.3 km of each other and one place 5 km away. *)
ScenarioPlaces == <<0, 1, 2, 3, 50>>

ScenarioOrders == {<<1, 2, 3, 4, 5>>, <<5, 1, 2, 3, 4>>, <<1, 2, 5, 3, 4>>}

ScenarioCounts ==
    {c \in [1..5 -> 0..4] : c[5] <= 1 /\ \A p \in 1..4 : c[p] >= 2}

RECURSIVE Total(_, _)
Total(c, n) == IF n = 0 THEN 0 ELSE c[n] + Total(c, n - 1)

PlaceCounts ==
    {c \in [1..Len(Places) -> 0..MaxPerPlace] : Total(c, Len(Places)) <= MaxCrimes}

Block(p, n, places) ==
    [k \in 1..n |-> [id |-> <<p, k>>, latitude |-> places[p]]]

RECURSIVE Blocks(_, _, _, _)
Blocks(order, j, c, places) ==
    IF j > Len(order) THEN <<>>
    ELSE Block(order[j], c[order[j]], places) \o Blocks(order, j + 1, c, places)

CrimeLists ==
    {Blocks(o, 1, c, Places) : o \in PlaceOrders, c \in PlaceCounts}
    \cup {Blocks(o, 1, c, ScenarioPlaces) : o \in ScenarioOrders, c \in ScenarioCounts}

NoResponse ==
    [safety_score |-> StartScore, hits |-> {}, hotspots |-> <<>>,
     distance_km |-> 0, duration_minutes |-> 0,
     proximate_hotspots |-> <<>>, avoided_crime_zones |-> 0]

NoComparison ==
    [direct_route |-> NoResponse, safe_route |-> NoResponse,
     recommendation |-> "either_ok"]

(* CrimeMap is not mounted. *)
NoMap ==
    /\ reports = <<>>
    /\ loading = TRUE
    /\ loads = {}
    /\ started = 0
    /\ ws = <<>>
    /\ delivered = {}
    /\ db_reports = <<>>
    /\ ws_conn = 0
    /\ ws_stale = FALSE

(* AlertsPanel is not mounted. *)
NoAlerts ==
    /\ al_mounted = FALSE
    /\ al_now = 0
    /\ al_timer = -1
    /\ al_started = 0
    /\ al_inflight = {}
    /\ alerts = <<>>
    /\ al_loading = TRUE

(* Chatbot is not mounted. *)
NoChat ==
    /\ messages = <<>>
    /\ input = ""
    /\ ch_loading = FALSE
    /\ showFAQ = TRUE
    /\ ch_inflight = {}
    /\ ch_started = 0

(* Dashboard is not mounted. *)
NoDashboard ==
    /\ stats = 0
    /\ predictions = <<>>
    /\ dash_hotspots = <<>>
    /\ dash_loading = TRUE
    /\ dash_req = <<>>
    /\ dash_loads = 0
    /\ dash_errors = 0

(* RoutePlanner is not mounted. *)
NoPlanner ==
    /\ formData = [start |-> 0, end |-> 0, avoid_crime_radius_km |-> 5]
    /\ selectedStartLocation = [name |-> "", lat |-> 0]
    /\ selectedEndLocation = [name |-> "", lat |-> 0]
    /\ rp_pending = {}
    /\ rp_clicks = 0

(* ReportForm is not mounted. *)
NoReport ==
    /\ rf_open = FALSE
    /\ rf_form = [crime_type |-> "", description |-> "", latitude |-> 0]
    /\ submitting = FALSE
    /\ rf_calls = {}
    /\ rf_started = 0
    /\ rf_done = {}
    /\ rf_closes = 0
    /\ rf_toast = ""

OutsidePipelineIdle ==
    /\ NoMap
    /\ NoAlerts
    /\ NoChat
    /\ NoDashboard
    /\ NoPlanner
    /\ NoReport

InitResults ==
    /\ OutsidePipelineIdle
    /\ pc = "request"
    /\ labels = <<>>
    /\ hotspots = <<>>
    /\ response = NoResponse
    /\ comparison = NoComparison

----------------------------------------------------------------------------
(* GET /api/predictions/hotspots *)

InitHotspots ==
    /\ crimes = <<>>
    /\ clusters \in BoundedSeq(ClusterDomain, 0, MaxClusters)
                    \cup BoundedSeq(ManyDomain, MaxClusters + 1, MaxManyClusters)
    /\ route = <<>>
    /\ direct_route = <<>>
    /\ radius = ProximityKm
    /\ margin = DefaultMargin
    /\ InitResults

GetHotspots ==
    /\ pc = "request"
    /\ hotspots' = get_hotspots(clusters)
    /\ pc' = "get_hotspots"
    /\ UNCHANGED <<outsidePipeline, crimes, labels, clusters, route, direct_route, radius, margin, response, comparison>>

NextHotspots == GetHotspots

SpecHotspots == InitHotspots /\ [][NextHotspots]_vars

----------------------------------------------------------------------------
(* POST /api/routes/safe *)

Init ==
    /\ crimes = <<>>
    /\ clusters \in BoundedSeq(RouteClusterDomain, 0, MaxHotspots)
    /\ route \in BoundedSeq(RouteLatitudes, 0, MaxRoute)
    /\ direct_route = <<>>
    /\ radius \in Radii
    /\ margin = DefaultMargin
    /\ InitResults

CalculateSafeRoute ==
    /\ pc = "request"
    /\ response' = calculate_safe_route(clusters, route, radius)
    /\ pc' = "calculate_safe_route"
    /\ UNCHANGED <<outsidePipeline, crimes, labels, clusters, route, direct_route, radius, margin, hotspots, comparison>>

Next == CalculateSafeRoute

Spec == Init /\ [][Next]_vars

----------------------------------------------------------------------------
(* POST /api/routes/compare *)

InitCompare ==
    /\ crimes = <<>>
    /\ clusters \in BoundedSeq(RouteClusterDomain, 0, MaxCmpRoute)
    /\ route \in BoundedSeq(RouteLatitudes, 2, MaxCmpRoute)
    /\ direct_route \in BoundedSeq(RouteLatitudes, 2, MaxCmpRoute)
    /\ radius \in Radii
    /\ margin \in Margins
    /\ InitResults

CompareRoutes ==
    /\ pc = "request"
    /\ comparison' = compare(clusters, direct_route, route, radius, margin)
    /\ pc' = "compare"
    /\ UNCHANGED <<outsidePipeline, crimes, labels, clusters, route, direct_route, radius, margin, hotspots, response>>

NextCompare == CompareRoutes

SpecCompare == InitCompare /\ [][NextCompare]_vars

----------------------------------------------------------------------------
(* GET /api/predictions/hotspots, from the crimes of the last 30 days *)

InitCluster ==
    /\ crimes \in CrimeLists
    /\ clusters = <<>>
    /\ route = <<>>
    /\ direct_route = <<>>
    /\ radius = ProximityKm
    /\ margin = DefaultMargin
    /\ InitResults

(* fit raises ValueError on an array without samples. *)
HotspotsOfCrimes ==
    /\ pc = "request"
    /\ \/ /\ crimes = <<>>
          /\ pc' = "ValueError"
          /\ UNCHANGED <<labels, clusters, hotspots>>
       \/ /\ crimes # <<>>
          /\ labels' = DBSCAN(crimes, eps, min_samples)
          /\ clusters' = Clusters(crimes, labels')
          /\ hotspots' = get_hotspots(clusters')
          /\ pc' = "get_hotspots"
    /\ UNCHANGED <<outsidePipeline, crimes, route, direct_route, radius, margin, response, comparison>>

NextCluster == HotspotsOfCrimes

SpecCluster == InitCluster /\ [][NextCluster]_vars

----------------------------------------------------------------------------
(* CrimeMap: loadData, the WebSocket handler and the backend that stores a
   report and then broadcasts it.  A report is its id; the backend numbers
   the reports 1, 2, ... *)

NoPipeline ==
    /\ crimes = <<>>
    /\ clusters = <<>>
    /\ route = <<>>
    /\ direct_route = <<>>
    /\ radius = ProximityKm
    /\ margin = DefaultMargin
    /\ pc = "request"
    /\ labels = <<>>
    /\ hotspots = <<>>
    /\ response = NoResponse
    /\ comparison = NoComparison

OutsideMapIdle ==
    /\ NoPipeline
    /\ NoAlerts
    /\ NoChat
    /\ NoDashboard
    /\ NoPlanner
    /\ NoReport

OutsideAlertsIdle ==
    /\ NoPipeline
    /\ NoMap
    /\ NoChat
    /\ NoDashboard
    /\ NoPlanner
    /\ NoReport

OutsideChatIdle ==
    /\ NoPipeline
    /\ NoMap
    /\ NoAlerts
    /\ NoDashboard
    /\ NoPlanner
    /\ NoReport

OutsideDashboardIdle ==
    /\ NoPipeline
    /\ NoMap
    /\ NoAlerts
    /\ NoChat
    /\ NoPlanner
    /\ NoReport

OutsidePlannerIdle ==
    /\ NoPipeline
    /\ NoMap
    /\ NoAlerts
    /\ NoChat
    /\ NoDashboard
    /\ NoReport

OutsideReportIdle ==
    /\ NoPipeline
    /\ NoMap
    /\ NoAlerts
    /\ NoChat
    /\ NoDashboard
    /\ NoPlanner

(* CrimeMap has been mounted: useState gave the initial values, the effect
   has called loadData and the effect of WebSocketHandler has opened the
   first connection; the backend holds some reports already.  Every render
   of CrimeMap creates a new handleNewReport, which is the dependency of the
   effect of WebSocketHandler. *)
InitMap ==
    /\ OutsideMapIdle
    /\ reports = <<>>
    /\ loading = TRUE
    /\ started = 1
    /\ loads = {[id |-> 1, served |-> FALSE, data |-> <<>>]}
    /\ ws = <<>>
    /\ delivered = {}
    /\ db_reports \in {<<>>, <<1>>}
    /\ ws_conn = 1
    /\ ws_stale = FALSE

(* loadData is called again (Refresh, or a change of filters): setLoading(true)
   and the three requests are sent. *)
LoadData ==
    /\ started < MaxLoads
    /\ started' = started + 1
    /\ loading' = TRUE
    /\ loads' = loads \cup {[id |-> started + 1, served |-> FALSE, data |-> <<>>]}
    /\ ws_stale' = (ws_stale \/ ~loading)
    /\ UNCHANGED <<reports, ws, delivered, db_reports, ws_conn, outsideMap>>

(* The backend answers GET /reports of one call with the reports it holds. *)
ServeReports(l) ==
    /\ ~l.served
    /\ loads' = (loads \ {l}) \cup {[id |-> l.id, served |-> TRUE, data |-> db_reports]}
    /\ UNCHANGED <<reports, loading, started, ws, delivered, db_reports, ws_conn, ws_stale, outsideMap>>

(* The responses of one call have arrived: setReports(reportsRes.data || []),
   finally setLoading(false). *)
LoadDataDone(l) ==
    /\ l.served
    /\ reports' = l.data
    /\ loading' = FALSE
    /\ loads' = loads \ {l}
    /\ ws_stale' = TRUE
    /\ UNCHANGED <<started, ws, delivered, db_reports, ws_conn, outsideMap>>

(* A request of one call fails: the catch branch shows a toast and leaves
   the reports, finally setLoading(false). *)
LoadDataFailed(l) ==
    /\ loading' = FALSE
    /\ loads' = loads \ {l}
    /\ ws_stale' = (ws_stale \/ loading)
    /\ UNCHANGED <<reports, started, ws, delivered, db_reports, ws_conn, outsideMap>>

(* The backend stores a new report and broadcasts it; the message reaches
   this client unless its socket is closed at that moment. *)
CreateReport ==
    /\ Len(db_reports) < MaxReports
    /\ db_reports' = <<Len(db_reports) + 1>> \o db_reports
    /\ ws' \in {Append(ws, Len(db_reports) + 1), ws}
    /\ UNCHANGED <<reports, loading, loads, started, delivered, ws_conn, ws_stale, outsideMap>>

(* ws.onmessage with a new_report message: toast.success and
   handleNewReport, setReports(prev => [newReport, ...prev]). *)
OnMessage ==
    /\ ws # <<>>
    /\ reports' = <<Head(ws)>> \o reports
    /\ delivered' = delivered \cup {Head(ws)}
    /\ ws' = Tail(ws)
    /\ ws_stale' = TRUE
    /\ UNCHANGED <<loading, loads, started, db_reports, ws_conn, outsideMap>>

(* The effect of WebSocketHandler runs again after a render: its cleanup
   closes the connection, whose messages are no longer handled, and a new
   connection is opened. *)
ReconnectSocket ==
    /\ ws_stale
    /\ ws_stale' = FALSE
    /\ ws_conn' = ws_conn + 1
    /\ ws' = <<>>
    /\ UNCHANGED <<reports, loading, loads, started, delivered, db_reports, outsideMap>>

NextMap ==
    \/ LoadData
    \/ \E l \in loads : ServeReports(l)
    \/ \E l \in loads : LoadDataDone(l)
    \/ \E l \in loads : LoadDataFailed(l)
    \/ CreateReport
    \/ OnMessage
    \/ ReconnectSocket

SpecMap == InitMap /\ [][NextMap]_vars

----------------------------------------------------------------------------
(* AlertsPanel: the effect that loads the alerts and sets the interval, its
   cleanup, and loadAlerts.  Time is counted in units of 10 s; an interval
   that is due fires before time goes on. *)

AlertLists == {<<>>, <<1>>, <<2, 1>>}

(* AlertsPanel has been mounted: the effect has called loadAlerts and
   setInterval(loadAlerts, 30000). *)
InitAlerts ==
    /\ OutsideAlertsIdle
    /\ al_mounted = TRUE
    /\ al_now = 0
    /\ al_timer = RefreshInterval
    /\ al_started = 1
    /\ al_inflight = {1}
    /\ alerts = <<>>
    /\ al_loading = TRUE

Tick ==
    /\ al_now < MaxTime
    /\ al_timer # 0
    /\ al_now' = al_now + 1
    /\ al_timer' = IF al_timer > 0 THEN al_timer - 1 ELSE al_timer
    /\ UNCHANGED <<al_mounted, al_started, al_inflight, alerts, al_loading, outsideAlerts>>

(* The interval fires: loadAlerts is called and sends its request. *)
IntervalFires ==
    /\ al_timer = 0
    /\ al_timer' = RefreshInterval
    /\ al_started' = al_started + 1
    /\ al_inflight' = al_inflight \cup {al_started + 1}
    /\ UNCHANGED <<al_mounted, al_now, alerts, al_loading, outsideAlerts>>

(* The request of one loadAlerts is answered: setAlerts(response.data || []),
   finally setLoading(false); state of an unmounted panel is not kept. *)
LoadAlertsDone(l) ==
    /\ al_inflight' = al_inflight \ {l}
    /\ IF al_mounted
       THEN /\ alerts' \in AlertLists
            /\ al_loading' = FALSE
       ELSE UNCHANGED <<alerts, al_loading>>
    /\ UNCHANGED <<al_mounted, al_now, al_timer, al_started, outsideAlerts>>

(* The request of one loadAlerts fails: the alerts stay, finally
   setLoading(false). *)
LoadAlertsFailed(l) ==
    /\ al_inflight' = al_inflight \ {l}
    /\ al_loading' = IF al_mounted THEN FALSE ELSE al_loading
    /\ UNCHANGED <<al_mounted, al_now, al_timer, al_started, alerts, outsideAlerts>>

(* The cleanup of the effect without clearInterval. *)
UnmountKeepInterval ==
    /\ al_mounted
    /\ al_mounted' = FALSE
    /\ UNCHANGED <<al_now, al_timer, al_started, al_inflight, alerts, al_loading, outsideAlerts>>

(* The panel unmounts: the cleanup of the effect calls clearInterval. *)
UnmountAlerts ==
    /\ al_mounted
    /\ al_mounted' = FALSE
    /\ al_timer' = -1
    /\ UNCHANGED <<al_now, al_started, al_inflight, alerts, al_loading, outsideAlerts>>

NextAlerts ==
    \/ Tick
    \/ IntervalFires
    \/ \E l \in al_inflight : LoadAlertsDone(l)
    \/ \E l \in al_inflight : LoadAlertsFailed(l)
    \/ UnmountAlerts

SpecAlerts == InitAlerts /\ [][NextAlerts]_vars

----------------------------------------------------------------------------
(* Chatbot: handleSend (Send button and Enter key), the settling of a chat
   request, and the FAQ buttons. *)

ChatInputs == {"", " ", "hi", "stats"}

(* input.trim() *)
Trim(t) == IF t = " " THEN "" ELSE t

Greeting == [type |-> "bot", text |-> "hello"]

InitChat ==
    /\ OutsideChatIdle
    /\ messages = <<Greeting>>
    /\ input = ""
    /\ ch_loading = FALSE
    /\ showFAQ = TRUE
    /\ ch_inflight = {}
    /\ ch_started = 0

(* onChange of the textarea *)
ChangeInput(t) ==
    /\ t # input
    /\ input' = t
    /\ UNCHANGED <<messages, ch_loading, showFAQ, ch_inflight, ch_started, outsideChat>>

(* handleSend up to its await: nothing for a blank input, else the user
   message is appended, the input cleared and the request sent. *)
handleSend ==
    /\ ch_started < MaxSends
    /\ Len(messages) < MaxMessages
    /\ IF Trim(input) = ""
       THEN UNCHANGED <<messages, input, ch_loading, showFAQ, ch_inflight, ch_started>>
       ELSE /\ messages' = Append(messages, [type |-> "user", text |-> input])
            /\ input' = ""
            /\ ch_loading' = TRUE
            /\ showFAQ' = FALSE
            /\ ch_started' = ch_started + 1
            /\ ch_inflight' = ch_inflight \cup {[id |-> ch_started + 1, message |-> input]}
    /\ UNCHANGED outsideChat

(* The Send button, disabled while loading or when the input is blank. *)
ClickSend ==
    /\ ~(ch_loading \/ Trim(input) = "")
    /\ handleSend

(* Enter without Shift in the textarea. *)
handleKeyPress == handleSend

(* The request fails and nothing is shown. *)
ChatFailedSilently(q) ==
    /\ ch_loading' = FALSE
    /\ ch_inflight' = ch_inflight \ {q}
    /\ UNCHANGED <<messages, input, showFAQ, ch_started, outsideChat>>

(* The request is answered: the bot message is appended, finally
   setLoading(false). *)
ChatAnswered(q) ==
    /\ messages' = Append(messages, [type |-> "bot", text |-> "reply"])
    /\ ch_loading' = FALSE
    /\ ch_inflight' = ch_inflight \ {q}
    /\ UNCHANGED <<input, showFAQ, ch_started, outsideChat>>

(* The request fails: the error message is appended, finally
   setLoading(false). *)
ChatFailed(q) ==
    /\ messages' = Append(messages, [type |-> "bot", text |-> "error"])
    /\ ch_loading' = FALSE
    /\ ch_inflight' = ch_inflight \ {q}
    /\ UNCHANGED <<input, showFAQ, ch_started, outsideChat>>

(* A FAQ button, shown while showFAQ: question and answer are appended. *)
handleFAQClick ==
    /\ showFAQ
    /\ Len(messages) + 2 <= MaxMessages
    /\ messages' = messages \o <<[type |-> "user", text |-> "faq.q"],
                                 [type |-> "bot", text |-> "faq.a"]>>
    /\ UNCHANGED <<input, ch_loading, showFAQ, ch_inflight, ch_started, outsideChat>>

(* The buttons Show FAQs and Hide FAQs. *)
ToggleFAQ ==
    /\ showFAQ' = ~showFAQ
    /\ UNCHANGED <<messages, input, ch_loading, ch_inflight, ch_started, outsideChat>>

NextChat ==
    \/ \E t \in ChatInputs : ChangeInput(t)
    \/ ClickSend
    \/ handleKeyPress
    \/ \E q \in ch_inflight : ChatAnswered(q)
    \/ \E q \in ch_inflight : ChatFailed(q)
    \/ handleFAQClick
    \/ ToggleFAQ

SpecChat == InitChat /\ [][NextChat]_vars

----------------------------------------------------------------------------
(* Dashboard: loadDashboardData with its Promise.all of three requests.
   dash_req is <<>> when no load is awaited, else the state of the requests
   getStats, predict and getHotspots in this order. *)

StatsData == {1, 2}

ListData == {[has |-> FALSE, list |-> <<>>], [has |-> TRUE, list |-> <<1>>]}

Pending(k) ==
    [state |-> "pending",
     data |-> IF k = 1 THEN 0 ELSE [has |-> FALSE, list |-> <<>>]]

ResponseData(k) == IF k = 1 THEN StatsData ELSE ListData

(* data.predictions || [] *)
OrEmpty(d) == IF d.has THEN d.list ELSE <<>>

(* Dashboard has been mounted and the effect has called loadDashboardData. *)
InitDashboard ==
    /\ OutsideDashboardIdle
    /\ stats = 0
    /\ predictions = <<>>
    /\ dash_hotspots = <<>>
    /\ dash_loading = TRUE
    /\ dash_req = <<Pending(1), Pending(2), Pending(3)>>
    /\ dash_loads = 1
    /\ dash_errors = 0

(* The Refresh button, rendered when loading is false. *)
loadDashboardData ==
    /\ ~dash_loading
    /\ dash_loads < MaxDashLoads
    /\ dash_loads' = dash_loads + 1
    /\ dash_loading' = TRUE
    /\ dash_req' = <<Pending(1), Pending(2), Pending(3)>>
    /\ UNCHANGED <<stats, predictions, dash_hotspots, dash_errors, outsideDashboard>>

(* A response is applied as soon as it arrives, without Promise.all. *)
RequestAnsweredEach(k, d) ==
    /\ dash_req # <<>>
    /\ dash_req[k].state = "pending"
    /\ LET req == [dash_req EXCEPT ![k] = [state |-> "ok", data |-> d]]
       IN  /\ stats' = IF k = 1 THEN d ELSE stats
           /\ predictions' = IF k = 2 THEN OrEmpty(d) ELSE predictions
           /\ dash_hotspots' = IF k = 3 THEN OrEmpty(d) ELSE dash_hotspots
           /\ IF \A j \in 1..3 : req[j].state = "ok"
              THEN dash_loading' = FALSE /\ dash_req' = <<>>
              ELSE dash_req' = req /\ UNCHANGED dash_loading
    /\ UNCHANGED <<dash_loads, dash_errors, outsideDashboard>>

(* One request is answered; when it is the last of the three, Promise.all
   resolves: the three states are set, finally setLoading(false). *)
RequestAnswered(k, d) ==
    /\ dash_req # <<>>
    /\ dash_req[k].state = "pending"
    /\ LET req == [dash_req EXCEPT ![k] = [state |-> "ok", data |-> d]]
       IN  IF \A j \in 1..3 : req[j].state = "ok"
           THEN /\ stats' = req[1].data
                /\ predictions' = OrEmpty(req[2].data)
                /\ dash_hotspots' = OrEmpty(req[3].data)
                /\ dash_loading' = FALSE
                /\ dash_req' = <<>>
           ELSE /\ dash_req' = req
                /\ UNCHANGED <<stats, predictions, dash_hotspots, dash_loading>>
    /\ UNCHANGED <<dash_loads, dash_errors, outsideDashboard>>

(* One request fails: Promise.all rejects, the catch branch logs the error,
   finally setLoading(false); the other responses are not awaited. *)
RequestFailed(k) ==
    /\ dash_req # <<>>
    /\ dash_req[k].state = "pending"
    /\ dash_errors' = dash_errors + 1
    /\ dash_loading' = FALSE
    /\ dash_req' = <<>>
    /\ UNCHANGED <<stats, predictions, dash_hotspots, dash_loads, outsideDashboard>>

Settle ==
    \/ \E k \in 1..3 : \E d \in ResponseData(k) : RequestAnswered(k, d)
    \/ \E k \in 1..3 : RequestFailed(k)

NextDashboard ==
    \/ loadDashboardData
    \/ \E k \in 1..3 : \E d \in ResponseData(k) : RequestAnswered(k, d)
    \/ \E k \in 1..3 : RequestFailed(k)

(* Every request is answered or fails in the end. *)
SpecDashboard == InitDashboard /\ [][NextDashboard]_vars /\ WF_vars(Settle)

----------------------------------------------------------------------------
(* RoutePlanner: the dropdowns, the radius input and Use Current Location
   with its geolocation and reverse-geocoding callbacks.  A handler reads the
   formData of the render that created it; the callbacks of a geolocation
   call read the formData of the render in which the button was clicked. *)

ALL_LOCATIONS ==
    <<[name |-> "Madhapur", lat |-> 0],
      [name |-> "Gachibowli", lat |-> 9],
      [name |-> "Hitech City", lat |-> 3]>>

GpsPositions == {1, 7}

RadiusInputs == {5, 10}

Endpoints == {"start", "end"}

(* The entry of ALL_LOCATIONS nearest to a position, the first of them when
   several are equally near. *)
Nearest(pos) ==
    LET i == CHOOSE x \in 1..Len(ALL_LOCATIONS) :
                 /\ \A y \in 1..Len(ALL_LOCATIONS) :
                        Abs(ALL_LOCATIONS[x].lat - pos) <= Abs(ALL_LOCATIONS[y].lat - pos)
                 /\ \A y \in 1..(x - 1) :
                        Abs(ALL_LOCATIONS[y].lat - pos) > Abs(ALL_LOCATIONS[x].lat - pos)
    IN  ALL_LOCATIONS[i]

InitPlanner ==
    /\ OutsidePlannerIdle
    /\ formData = [start |-> ALL_LOCATIONS[3].lat, end |-> ALL_LOCATIONS[1].lat,
                   avoid_crime_radius_km |-> 5]
    /\ selectedStartLocation = ALL_LOCATIONS[3]
    /\ selectedEndLocation = ALL_LOCATIONS[1]
    /\ rp_pending = {}
    /\ rp_clicks = 0

(* setSelectedStartLocation / setSelectedEndLocation and
   setFormData({...form, start_lat, start_lng}) for the form a handler
   read. *)
SetEndpoint(type, shown, form) ==
    /\ IF type = "start"
       THEN /\ selectedStartLocation' = shown
            /\ formData' = [form EXCEPT !.start = shown.lat]
            /\ UNCHANGED selectedEndLocation
       ELSE /\ selectedEndLocation' = shown
            /\ formData' = [form EXCEPT !.end = shown.lat]
            /\ UNCHANGED selectedStartLocation

handleLocationChange(type, i) ==
    /\ (IF type = "start" THEN selectedStartLocation ELSE selectedEndLocation)
           # ALL_LOCATIONS[i]
    /\ SetEndpoint(type, ALL_LOCATIONS[i], formData)
    /\ UNCHANGED <<rp_pending, rp_clicks, outsidePlanner>>

(* handleChange of the radius input *)
handleRadiusChange(r) ==
    /\ r # formData.avoid_crime_radius_km
    /\ formData' = [formData EXCEPT !.avoid_crime_radius_km = r]
    /\ UNCHANGED <<selectedStartLocation, selectedEndLocation, rp_pending, rp_clicks, outsidePlanner>>

(* handleGetCurrentLocation: getCurrentPosition is called with callbacks
   that hold the present formData. *)
handleGetCurrentLocation(type) ==
    /\ rp_clicks < MaxGps
    /\ rp_clicks' = rp_clicks + 1
    /\ rp_pending' = rp_pending \cup
           {[id |-> rp_clicks + 1, type |-> type, form |-> formData,
             phase |-> "position", pos |-> 0]}
    /\ UNCHANGED <<formData, selectedStartLocation, selectedEndLocation, outsidePlanner>>

(* The success callback starts: the reverse geocoding request is sent. *)
PositionFound(cb, pos) ==
    /\ cb.phase = "position"
    /\ rp_pending' = (rp_pending \ {cb})
           \cup {[cb EXCEPT !.phase = "geocode", !.pos = pos]}
    /\ UNCHANGED <<formData, selectedStartLocation, selectedEndLocation, rp_clicks, outsidePlanner>>

(* The error callback: a toast. *)
PositionError(cb) ==
    /\ cb.phase = "position"
    /\ rp_pending' = rp_pending \ {cb}
    /\ UNCHANGED <<formData, selectedStartLocation, selectedEndLocation, rp_clicks, outsidePlanner>>

(* The reverse geocoding is answered (the name found is shown) or fails
   (My Location is shown); both set the endpoint to the GPS position. *)
GeocodeSettled(cb, name) ==
    /\ cb.phase = "geocode"
    /\ SetEndpoint(cb.type, [name |-> name, lat |-> cb.pos], cb.form)
    /\ rp_pending' = rp_pending \ {cb}
    /\ UNCHANGED <<rp_clicks, outsidePlanner>>

NextPlanner ==
    \/ \E type \in Endpoints : \E i \in 1..Len(ALL_LOCATIONS) :
           handleLocationChange(type, i)
    \/ \E r \in RadiusInputs : handleRadiusChange(r)
    \/ \E type \in Endpoints : handleGetCurrentLocation(type)
    \/ \E cb \in rp_pending : \E pos \in GpsPositions : PositionFound(cb, pos)
    \/ \E cb \in rp_pending : PositionError(cb)
    \/ \E cb \in rp_pending : \E name \in {"pin", "My Location"} :
           GeocodeSettled(cb, name)

SpecPlanner == InitPlanner /\ [][NextPlanner]_vars

----------------------------------------------------------------------------
(* ReportForm: the fields, the submit button (disabled while submitting),
   the createReport call of handleSubmit and the Cancel button. *)

CrimeTypeInputs == {"", "Theft"}

DescriptionInputs == {"", "stolen bike"}

InitReport ==
    /\ OutsideReportIdle
    /\ rf_open = TRUE
    /\ rf_form = [crime_type |-> "", description |-> "",
                  latitude |-> ALL_LOCATIONS[1].lat]
    /\ submitting = FALSE
    /\ rf_calls = {}
    /\ rf_started = 0
    /\ rf_done = {}
    /\ rf_closes = 0
    /\ rf_toast = ""

(* handleChange of the crime_type select *)
ChangeCrimeType(v) ==
    /\ rf_open
    /\ v # rf_form.crime_type
    /\ rf_form' = [rf_form EXCEPT !.crime_type = v]
    /\ UNCHANGED <<rf_open, submitting, rf_calls, rf_started, rf_done, rf_closes, rf_toast, outsideReport>>

(* handleChange of the description textarea *)
ChangeDescription(v) ==
    /\ rf_open
    /\ v # rf_form.description
    /\ rf_form' = [rf_form EXCEPT !.description = v]
    /\ UNCHANGED <<rf_open, submitting, rf_calls, rf_started, rf_done, rf_closes, rf_toast, outsideReport>>

(* handleLocationChange of ReportForm *)
ChangeReportLocation(i) ==
    /\ rf_open
    /\ ALL_LOCATIONS[i].lat # rf_form.latitude
    /\ rf_form' = [rf_form EXCEPT !.latitude = ALL_LOCATIONS[i].lat]
    /\ UNCHANGED <<rf_open, submitting, rf_calls, rf_started, rf_done, rf_closes, rf_toast, outsideReport>>

(* handleSubmit up to its await: the required-field check, then
   setSubmitting(true) and the createReport call with the form's data. *)
handleSubmit ==
    /\ rf_open
    /\ ~submitting
    /\ rf_started < MaxSubmits
    /\ IF rf_form.crime_type = "" \/ rf_form.description = ""
       THEN /\ rf_toast' = "required"
            /\ UNCHANGED <<submitting, rf_calls, rf_started>>
       ELSE /\ submitting' = TRUE
            /\ rf_started' = rf_started + 1
            /\ rf_calls' = rf_calls \cup {[id |-> rf_started + 1, data |-> rf_form]}
            /\ UNCHANGED rf_toast
    /\ UNCHANGED <<rf_open, rf_form, rf_done, rf_closes, outsideReport>>

(* createReport resolved: toast.success, onClose(), then finally
   setSubmitting(false). *)
CreateReportOk(c) ==
    /\ rf_calls' = rf_calls \ {c}
    /\ rf_done' = rf_done \cup {[id |-> c.id, ok |-> TRUE]}
    /\ rf_toast' = "success"
    /\ rf_closes' = rf_closes + 1
    /\ rf_open' = FALSE
    /\ submitting' = FALSE
    /\ UNCHANGED <<rf_form, rf_started, outsideReport>>

(* A variant that calls onClose after a failure as well. *)
CreateReportFailedCloses(c) ==
    /\ rf_calls' = rf_calls \ {c}
    /\ rf_done' = rf_done \cup {[id |-> c.id, ok |-> FALSE]}
    /\ rf_toast' = "failed"
    /\ rf_closes' = rf_closes + 1
    /\ rf_open' = FALSE
    /\ submitting' = FALSE
    /\ UNCHANGED <<rf_form, rf_started, outsideReport>>

(* createReport rejected: toast.error, then finally setSubmitting(false). *)
CreateReportFailed(c) ==
    /\ rf_calls' = rf_calls \ {c}
    /\ rf_done' = rf_done \cup {[id |-> c.id, ok |-> FALSE]}
    /\ rf_toast' = "failed"
    /\ submitting' = FALSE
    /\ UNCHANGED <<rf_open, rf_form, rf_started, rf_closes, outsideReport>>

(* The Cancel and close buttons and the overlay call onClose: the parent
   unmounts the form and its state is gone; a call in flight stays in
   flight. *)
CancelReport ==
    /\ rf_open
    /\ rf_open' = FALSE
    /\ submitting' = FALSE
    /\ UNCHANGED <<rf_form, rf_calls, rf_started, rf_done, rf_closes, rf_toast, outsideReport>>

NextReport ==
    \/ \E v \in CrimeTypeInputs : ChangeCrimeType(v)
    \/ \E v \in DescriptionInputs : ChangeDescription(v)
    \/ \E i \in 1..Len(ALL_LOCATIONS) : ChangeReportLocation(i)
    \/ handleSubmit
    \/ \E c \in rf_calls : CreateReportOk(c)
    \/ \E c \in rf_calls : CreateReportFailed(c)
    \/ CancelReport

SpecReport == InitReport /\ [][NextReport]_vars

----------------------------------------------------------------------------
(* Properties of calculate_safe_route, checked under Spec *)

Routed == pc = "calculate_safe_route"

RouteIdx == 1..Len(route)

HotspotIdx == 1..Len(response.hotspots)

(* The hotspots of the response that are of severity sev. *)
ProximateOf(sev) ==
    {i \in 1..Len(response.proximate_hotspots) :
        response.proximate_hotspots[i].severity = sev}

(* The pairs of a route point and a cluster centre less than 0.5 km apart. *)
NearPairs ==
    {p \in RouteIdx \X (1..Len(clusters)) :
        Abs(route[p[1]] - clusters[p[2]].latitude) < 5}

(* C1 as stated: safety_score = max(0, 100 - (20 * proximate high hotspots
   + 10 * proximate medium hotspots + 5 * proximate low hotspots)), and the
   score lies within [0, 100]. *)
C1_Original ==
    Routed =>
        /\ response.safety_score =
              Max(0, 100 - (20 * Cardinality(ProximateOf("high"))
                            + 10 * Cardinality(ProximateOf("medium"))
                            + 5 * Cardinality(ProximateOf("low"))))
        /\ response.safety_score \in 0..100

(* C1 amended: safety_score = max(0, 100 - 10 * the number of pairs of a
   route point and a hotspot for which the distance computed is less than
   0.5 km), whatever the severity of the hotspots; the score lies within
   [0, 100]. *)
C1_ScoreIsTenPerNearPair ==
    Routed =>
        /\ response.safety_score = Max(0, 100 - 10 * Cardinality(NearPairs))
        /\ response.safety_score \in 0..100

(* The score is clamped: more than ten penalties were taken, on a high and
   on a medium hotspot, and the score is 0. *)
C1_Witness ==
    /\ Routed
    /\ Cardinality(response.hits) > 10
    /\ response.safety_score = 0
    /\ \E p, q \in response.hits :
          /\ response.hotspots[p[2]].severity = "high"
          /\ response.hotspots[q[2]].severity = "medium"

(* The route points at which the penalty was taken for hotspot i. *)
HitsOf(i) == {j \in RouteIdx : <<j, i>> \in response.hits}

(* The route points less than 0.5 km from hotspot i. *)
PointsNear(i) ==
    {j \in RouteIdx : Abs(route[j] - response.hotspots[i].latitude) < 5}

RECURSIVE SumOver(_, _)
SumOver(f, n) == IF n = 0 THEN 0 ELSE f[n] + SumOver(f, n - 1)

(* C2 as stated: a hotspot near several route points is counted once, so
   the score is 100 less one penalty for each hotspot that is near some
   route point. *)
C2_Original ==
    Routed =>
        response.safety_score =
            Max(0, 100 - 10 * Cardinality({i \in HotspotIdx : HitsOf(i) # {}}))

(* C2 amended: a hotspot that lies within 0.5 km of k route points is
   counted k times: its penalty is subtracted once for each of those route
   points, so the score depends on how many route points are near it. *)
C2_PenaltyPerRoutePoint ==
    Routed =>
        /\ \A i \in HotspotIdx : HitsOf(i) = PointsNear(i)
        /\ LET taken == [i \in HotspotIdx |-> 10 * Cardinality(PointsNear(i))]
               total == SumOver(taken, Len(response.hotspots))
           IN  total <= 100 => response.safety_score = 100 - total

(* One hotspot near two route points costs twenty. *)
C2_Witness ==
    /\ Routed
    /\ Len(response.hotspots) = 1
    /\ Cardinality(HitsOf(1)) = 2
    /\ response.safety_score = 80

(* C3 as stated: a hotspot is treated as proximate (a penalty is taken for
   it) if and only if the least distance from a route point to its centroid
   is at most the threshold the caller supplied. *)
C3_Claim ==
    Routed =>
        \A i \in HotspotIdx :
            HitsOf(i) # {} <=>
                \E j \in RouteIdx :
                    Abs(route[j] - response.hotspots[i].latitude) <= radius

(* C4: avoided_zone_count is the number of hotspots supplied less the number
   of proximate hotspots, and lies between 0 and the number supplied. *)
C4_AvoidedZoneCount ==
    Routed =>
        /\ response.avoided_crime_zones + Len(response.proximate_hotspots)
              = Len(response.hotspots)
        /\ response.avoided_crime_zones \in 0..Len(response.hotspots)

(* Some hotspots are proximate and some are avoided. *)
C4_Witness ==
    /\ Routed
    /\ Len(response.proximate_hotspots) >= 1
    /\ response.avoided_crime_zones >= 1
    /\ Cardinality(response.hits) > Len(response.proximate_hotspots)

----------------------------------------------------------------------------
(* Properties of get_hotspots, checked under SpecHotspots *)

Listed == pc = "get_hotspots"

OutIdx == 1..Len(hotspots)

(* C5 as stated: risk_score = min(100, incident_count * 10), so it lies
   within [0, 100] and does not decrease when incident_count grows. *)
C5_Original ==
    Listed =>
        /\ \A k \in OutIdx :
              /\ hotspots[k].risk_score = Min(100, hotspots[k].crime_count * 10)
              /\ hotspots[k].risk_score \in 0..100
        /\ \A k, l \in OutIdx :
              hotspots[k].crime_count <= hotspots[l].crime_count
                  => hotspots[k].risk_score <= hotspots[l].risk_score

(* C5 amended: risk_score = incident_count * 10 with no saturation at 100;
   it is never negative, exceeds 100 for more than 10 incidents, and does
   not decrease when incident_count grows. *)
C5_RiskIsTenPerIncident ==
    Listed =>
        /\ \A k \in OutIdx :
              /\ hotspots[k].risk_score = hotspots[k].crime_count * 10
              /\ hotspots[k].risk_score >= 0
              /\ hotspots[k].crime_count > 10 => hotspots[k].risk_score > 100
              /\ \E c \in 1..Len(clusters) :
                    /\ clusters[c].crime_count = hotspots[k].crime_count
                    /\ clusters[c].latitude = hotspots[k].latitude
        /\ \A k, l \in OutIdx :
              hotspots[k].crime_count <= hotspots[l].crime_count
                  => hotspots[k].risk_score <= hotspots[l].risk_score

(* A hotspot of more than 10 incidents has a risk_score above 100. *)
C5_Witness ==
    /\ Listed
    /\ \E k, l \in OutIdx :
          /\ hotspots[k].risk_score > 100
          /\ hotspots[l].risk_score <= 100

(* C6 as stated: high iff risk_score >= 70, medium iff 40 <= risk_score < 70,
   low iff risk_score < 40. *)
C6_Original ==
    Listed =>
        \A k \in OutIdx :
            /\ hotspots[k].severity = "high" <=> hotspots[k].risk_score >= 70
            /\ hotspots[k].severity = "medium" <=>
                  (hotspots[k].risk_score >= 40 /\ hotspots[k].risk_score < 70)
            /\ hotspots[k].severity = "low" <=> hotspots[k].risk_score < 40

(* C6 amended: every hotspot has exactly one of two tiers: high if and only
   if incident_count > 20 (risk_score > 200), medium otherwise; low is never
   given. *)
C6_SeverityByCount ==
    Listed =>
        \A k \in OutIdx :
            /\ hotspots[k].severity \in {"high", "medium"}
            /\ hotspots[k].severity = "high" <=> hotspots[k].crime_count > 20
            /\ hotspots[k].severity = "high" <=> hotspots[k].risk_score > 200

(* Hotspots on both sides of the boundary: 20 incidents and 21 incidents. *)
C6_Witness ==
    /\ Listed
    /\ \E k, l \in OutIdx :
          /\ hotspots[k].crime_count = 21 /\ hotspots[k].severity = "high"
          /\ hotspots[l].crime_count = 20 /\ hotspots[l].severity = "medium"

(* C7 as stated: sorted by risk_score descending, then incident_count
   descending, then centroid latitude ascending. *)
C7_Original ==
    Listed =>
        \A k \in OutIdx : k < Len(hotspots) =>
            \/ hotspots[k].risk_score > hotspots[k + 1].risk_score
            \/ /\ hotspots[k].risk_score = hotspots[k + 1].risk_score
               /\ \/ hotspots[k].crime_count > hotspots[k + 1].crime_count
                  \/ /\ hotspots[k].crime_count = hotspots[k + 1].crime_count
                     /\ hotspots[k].latitude <= hotspots[k + 1].latitude

RECURSIVE LatitudesOfRisk(_, _, _)
LatitudesOfRisk(s, r, scale) ==
    IF s = <<>> THEN <<>>
    ELSE (IF s[1].crime_count * scale = r THEN <<s[1].latitude>> ELSE <<>>)
         \o LatitudesOfRisk(Tail(s), r, scale)

IsPrefix(s, t) == Len(s) <= Len(t) /\ s = SubSeq(t, 1, Len(s))

(* C7 amended: the sequence is sorted by risk_score descending; hotspots of
   equal risk_score have equal incident_count and keep the order their
   clusters had in the input (the label order), whatever their latitudes. *)
C7_SortedByRiskStable ==
    Listed =>
        /\ \A k \in OutIdx : k < Len(hotspots) =>
              /\ hotspots[k].risk_score >= hotspots[k + 1].risk_score
              /\ hotspots[k].risk_score = hotspots[k + 1].risk_score
                    => hotspots[k].crime_count = hotspots[k + 1].crime_count
        /\ \A n \in CrimeCounts :
              IsPrefix(LatitudesOfRisk(hotspots, n * 10, 10),
                       LatitudesOfRisk(clusters, n * 10, 10))

(* Two hotspots of equal risk_score, the one of greater latitude first, and
   a hotspot of another risk_score. *)
C7_Witness ==
    /\ Listed
    /\ \E k \in OutIdx : k < Len(hotspots)
          /\ hotspots[k].risk_score = hotspots[k + 1].risk_score
          /\ hotspots[k].latitude > hotspots[k + 1].latitude
    /\ \E k \in OutIdx : hotspots[k].risk_score # hotspots[1].risk_score

(* C8 as stated: one hotspot per input cluster, for any number of clusters. *)
C8_Original == Listed => Len(hotspots) = Len(clusters)

(* The clusters, or hotspots, of at least n incidents. *)
AtLeast(s, n) == Cardinality({k \in 1..Len(s) : s[k].crime_count >= n})

(* C8 amended: get_hotspots returns one hotspot per cluster only up to 10:
   the length of its result is min(10, number of clusters), and what it
   keeps are the hotspots of greatest risk_score. *)
C8_TopTen ==
    Listed =>
        /\ Len(hotspots) = Min(10, Len(clusters))
        /\ \A n \in CrimeCounts :
              AtLeast(hotspots, n) = Min(10, AtLeast(clusters, n))

(* More than 10 clusters, 10 hotspots, and a cluster of high risk among
   those that came after the tenth. *)
C8_Witness ==
    /\ Listed
    /\ Len(clusters) > 10
    /\ Len(hotspots) = 10
    /\ clusters[11].crime_count = 21
    /\ hotspots[10].crime_count = 5

----------------------------------------------------------------------------
(* Properties of the route comparison, checked under SpecCompare *)

Compared == pc = "compare"

Gain == comparison.safe_route.safety_score - comparison.direct_route.safety_score

(* The score of a geometry, from the clusters. *)
ScoreOf(coords) ==
    Max(0, 100 - 10 * Cardinality(
        {p \in (1..Len(coords)) \X (1..Len(clusters)) :
            Abs(coords[p[1]] - clusters[p[2]].latitude) < 5}))

(* C9: recommendation is prefer_adjusted if and only if the adjusted score
   exceeds the direct score by at least recommendation_margin, and either_ok
   otherwise; there is no third value. *)
C9_DecisionRule ==
    Compared =>
        /\ comparison.recommendation \in {"prefer_adjusted", "either_ok"}
        /\ comparison.recommendation = "prefer_adjusted"
              <=> ScoreOf(route) - ScoreOf(direct_route) >= margin
        /\ comparison.recommendation = "either_ok"
              <=> ScoreOf(route) - ScoreOf(direct_route) < margin

(* The gain is exactly the default margin, and the adjusted route is
   preferred. *)
C9_Witness ==
    /\ Compared
    /\ margin = 10
    /\ Gain = 10
    /\ comparison.recommendation = "prefer_adjusted"

(* C10 as stated: equal scores give either_ok for every configured value of
   recommendation_margin. *)
C10_Original ==
    (Compared /\ Gain = 0) => comparison.recommendation = "either_ok"

(* C10 amended: equal scores give either_ok for every recommendation_margin
   greater than 0. *)
C10_EqualScoresPositiveMargin ==
    (Compared /\ Gain = 0 /\ margin > 0)
        => comparison.recommendation = "either_ok"

(* Both routes pass a hotspot, score the same, and the margin is positive. *)
C10_Witness ==
    /\ Compared
    /\ margin > 0
    /\ Gain = 0
    /\ comparison.direct_route.safety_score < 100
    /\ route # direct_route
    /\ comparison.recommendation = "either_ok"

----------------------------------------------------------------------------
(* Properties of the clustering, checked under SpecCluster *)

Clustered == pc = "get_hotspots" /\ crimes # <<>>

MemberSets(cs) == {cs[k].members : k \in 1..Len(cs)}

IdBefore(a, b) == a[1] < b[1] \/ (a[1] = b[1] /\ a[2] < b[2])

RECURSIVE InIdOrder(_)
InIdOrder(R) ==
    IF R = {} THEN <<>>
    ELSE LET r == CHOOSE x \in R : \A y \in R \ {x} : IdBefore(x.id, y.id)
         IN  <<r>> \o InIdOrder(R \ {r})

(* The same crimes in the order of their ids. *)
SortById(cr) == InIdOrder({cr[i] : i \in 1..Len(cr)})

ClustersOf(cr) == Clusters(cr, DBSCAN(cr, eps, min_samples))

CoreIdx == core_samples(crimes, eps, min_samples)

CoreIds == {crimes[i].id : i \in CoreIdx}

WithinEps(i, j) == Abs(crimes[i].latitude - crimes[j].latitude) <= eps

(* C11 as stated: the member-id sets of the clusters are the same for every
   ordering of the same crimes; here, the same as for the crimes in the
   order of their ids. *)
C11_Original ==
    Clustered => MemberSets(clusters) = MemberSets(ClustersOf(SortById(crimes)))

(* C11: for every ordering of the same crimes the clusters hold the same
   core samples together and the same crimes are left as noise; which
   cluster a crime within eps of core samples of two clusters joins depends
   on the ordering. *)
C11_CoreMembershipAnyOrder ==
    Clustered =>
        LET other == ClustersOf(SortById(crimes))
        IN  /\ {M \cap CoreIds : M \in MemberSets(clusters)}
                 = {M \cap CoreIds : M \in MemberSets(other)}
            /\ UNION MemberSets(clusters) = UNION MemberSets(other)

(* Reordered crimes with two clusters and a member that is no core sample. *)
C11_Witness ==
    /\ Clustered
    /\ crimes # SortById(crimes)
    /\ Len(clusters) >= 2
    /\ \E i \in CrimeIdx(crimes) : labels[i] # -1 /\ i \notin CoreIdx

(* C12: the clusters are pairwise disjoint, each counts its members, and a
   crime within eps of no core sample is a member of none. *)
C12_DisjointNoNoise ==
    Clustered =>
        /\ \A k, l \in 1..Len(clusters) :
               k # l => clusters[k].members \cap clusters[l].members = {}
        /\ \A k \in 1..Len(clusters) :
               clusters[k].crime_count = Cardinality(clusters[k].members)
        /\ \A i \in CrimeIdx(crimes) :
               (\A j \in CoreIdx : ~WithinEps(i, j))
                   => crimes[i].id \notin UNION MemberSets(clusters)

(* Two clusters and a crime within eps of no core sample. *)
C12_Witness ==
    /\ Clustered
    /\ Len(clusters) >= 2
    /\ \E i \in CrimeIdx(crimes) : \A j \in CoreIdx : ~WithinEps(i, j)

(* C13 as stated: every member of a cluster lies within eps of another
   member of the same cluster. *)
C13_Original ==
    Clustered =>
        \A i \in CrimeIdx(crimes) :
            labels[i] # -1 =>
                \E j \in CrimeIdx(crimes) :
                    j # i /\ labels[j] = labels[i] /\ WithinEps(i, j)

(* C13: every member of a cluster is a core sample or lies within eps of a
   core sample of the same cluster, and every core sample is a member of a
   cluster; a cluster can consist of one core sample alone. *)
C13_ReachedFromCore ==
    Clustered =>
        /\ \A i \in CrimeIdx(crimes) :
               labels[i] # -1 =>
                   \E j \in CoreIdx : labels[j] = labels[i] /\ WithinEps(i, j)
        /\ \A j \in CoreIdx : labels[j] # -1

(* A cluster of one crime. *)
C13_Witness ==
    /\ Clustered
    /\ \E k \in 1..Len(clusters) : clusters[k].crime_count = 1

(* C16 as stated, for the clustering: with no crimes the call returns, and
   returns no clusters and no hotspots. *)
C16_Claim ==
    (crimes = <<>> /\ pc # "request")
        => (pc = "get_hotspots" /\ clusters = <<>> /\ hotspots = <<>>)

(* The crimes at latitude 0 to 0.3 km, and the crimes 5 km away. *)
Tight == {i \in CrimeIdx(crimes) : crimes[i].latitude \in 0..3}

Isolated == {i \in CrimeIdx(crimes) : crimes[i].latitude = 50}

Scenario ==
    /\ Clustered
    /\ Cardinality(Tight) = 12
    /\ Cardinality(Isolated) = 1
    /\ Len(crimes) = 13

(* C19 as stated: twelve crimes within 0.3 km of each other and one crime
   5 km away give one cluster of the twelve, and one hotspot with
   crime_count 12, risk_score 100 and severity high. *)
C19_Original ==
    Scenario =>
        /\ Len(clusters) = 1
        /\ clusters[1].members = {crimes[i].id : i \in Tight}
        /\ Len(hotspots) = 1
        /\ hotspots[1].crime_count = 12
        /\ hotspots[1].risk_score = 100
        /\ hotspots[1].severity = "high"

(* C19: twelve crimes within 0.3 km of each other and one crime 5 km away
   give one cluster of the twelve, the crime 5 km away is in no cluster, and
   the one hotspot has crime_count 12, risk_score 120 and severity medium. *)
C19_ScenarioOneHotspot ==
    Scenario =>
        /\ Len(clusters) = 1
        /\ clusters[1].members = {crimes[i].id : i \in Tight}
        /\ \A i \in Isolated : labels[i] = -1
        /\ Len(hotspots) = 1
        /\ hotspots[1].crime_count = 12
        /\ hotspots[1].risk_score = 120
        /\ hotspots[1].severity = "medium"

(* The scenario, with the crime 5 km away first in the query result. *)
C19_Witness ==
    /\ Scenario
    /\ crimes[1].latitude = 50

----------------------------------------------------------------------------
(* Further properties of calculate_safe_route, checked under Spec *)

(* C14 as stated: with a route of fewer than 2 points the call fails with
   InvalidRouteError and returns no evaluation. *)
C14_Claim ==
    (Len(route) < 2 /\ pc # "request")
        => (pc = "InvalidRouteError" /\ response = NoResponse)

(* C15 as stated: with a proximity threshold of 0 or less the call fails
   with InvalidParameterError and returns no evaluation. *)
C15_Claim ==
    (radius <= 0 /\ pc # "request")
        => (pc = "InvalidParameterError" /\ response = NoResponse)

Reverse(s) == [i \in 1..Len(s) |-> s[Len(s) + 1 - i]]

(* C17: proximate_hotspots is ordered by risk_score descending, then
   crime_count descending, then latitude ascending, and is the same when the
   clusters and the route points are given in the reverse order. *)
C17_ProximateRanked ==
    Routed =>
        /\ \A i, j \in 1..Len(response.proximate_hotspots) :
               i < j => RankBefore(response.proximate_hotspots[i],
                                   response.proximate_hotspots[j])
        /\ response.proximate_hotspots =
               calculate_safe_route(Reverse(clusters), Reverse(route), radius)
                   .proximate_hotspots

(* Two proximate hotspots of equal risk, the one of greater latitude first
   among the clusters, and a route that passes them in that order. *)
C17_Witness ==
    /\ Routed
    /\ Len(clusters) = 2
    /\ clusters[1].crime_count = clusters[2].crime_count
    /\ clusters[1].latitude > clusters[2].latitude
    /\ Len(route) >= 2
    /\ route[1] > route[Len(route)]
    /\ Len(response.proximate_hotspots) = 2

----------------------------------------------------------------------------
(* Properties of CrimeMap, checked under SpecMap *)

Displayed == {reports[i] : i \in 1..Len(reports)}

(* C20 as stated: a report that the handler has taken from a new_report
   message is in the displayed list, also after a loadData that was in
   flight has completed.  (A loadData that starts after the message is
   answered from a store that holds the report.) *)
C20_Claim == \A r \in delivered : r \in Displayed

----------------------------------------------------------------------------
(* Further properties of the clustering, checked under SpecCluster *)

(* The crimes that have at least min_samples crimes, themselves included,
   within eps. *)
Dense ==
    {i \in CrimeIdx(crimes) :
        Cardinality({j \in CrimeIdx(crimes) : WithinEps(i, j)}) >= 5}

(* C23: every crime with at least 5 crimes (itself included) within eps is
   in a cluster; two such crimes within eps of each other are in the same
   cluster; every other crime within eps of such a crime is in a cluster
   that holds such a crime within eps of it. *)
C23_DBSCANSemantics ==
    Clustered =>
        /\ \A i \in Dense : labels[i] # -1
        /\ \A i, j \in Dense : WithinEps(i, j) => labels[i] = labels[j]
        /\ \A i \in CrimeIdx(crimes) \ Dense :
               (\E j \in Dense : WithinEps(i, j))
                   => /\ labels[i] # -1
                      /\ \E j \in Dense : WithinEps(i, j) /\ labels[j] = labels[i]

(* A crime with exactly 5 crimes within eps, two such crimes of one cluster
   at different places, and a member that is not dense. *)
C23_Witness ==
    /\ Clustered
    /\ \E i \in Dense :
           Cardinality({j \in CrimeIdx(crimes) : WithinEps(i, j)}) = 5
    /\ \E i, j \in Dense :
           crimes[i].latitude # crimes[j].latitude /\ WithinEps(i, j)
    /\ \E i \in CrimeIdx(crimes) \ Dense : labels[i] # -1

----------------------------------------------------------------------------
(* Monotonicity of the safety score, checked under Spec *)

(* The score the loops of step 3 give for a hotspot list and a route. *)
EvalScore(hs, coords) ==
    Clamp(CoordLoop([score |-> StartScore, hits |-> {}], coords, 1, hs).score)

(* The route with the point p put in after its first k points. *)
WithPoint(coords, k, p) ==
    SubSeq(coords, 1, k) \o <<p>> \o SubSeq(coords, k + 1, Len(coords))

(* C27: the safety_score returned for a route is not exceeded by the score
   for the same route and one more hotspot, by the score for a greater
   threshold, or by the score for the route with one more point. *)
C27_ScoreMonotone ==
    Routed =>
        /\ \A c \in RouteClusterDomain :
               EvalScore(Append(response.hotspots, Hotspot(c)), route)
                   <= response.safety_score
        /\ \A r \in Radii :
               r > radius =>
                   calculate_safe_route(clusters, route, r).safety_score
                       <= response.safety_score
        /\ \A k \in 0..Len(route) : \A p \in RouteLatitudes :
               EvalScore(response.hotspots, WithPoint(route, k, p))
                   <= response.safety_score

(* A score above 0 that one more hotspot lowers and one more route point
   lowers. *)
C27_Witness ==
    /\ Routed
    /\ Len(route) >= 2
    /\ response.safety_score \in 1..99
    /\ \E c \in RouteClusterDomain :
           EvalScore(Append(response.hotspots, Hotspot(c)), route)
               < response.safety_score
    /\ \E k \in 0..Len(route) : \E p \in RouteLatitudes :
           EvalScore(response.hotspots, WithPoint(route, k, p))
               < response.safety_score

----------------------------------------------------------------------------
(* Properties of AlertsPanel, checked under SpecAlerts *)

(* C21: while the panel is mounted loadAlerts has been called once on mount
   and once for every 30 seconds that have passed since; once the panel is
   unmounted there is no interval and no further loadAlerts is called. *)
C21_LoadsEveryInterval ==
    /\ [](al_mounted =>
            al_started = 1 + (al_now \div RefreshInterval)
                           - (IF al_timer = 0 THEN 1 ELSE 0))
    /\ [](~al_mounted => al_timer = -1)
    /\ [][~al_mounted => al_started' = al_started]_vars

(* The panel was unmounted after its second load, and 70 seconds have
   passed since mount. *)
C21_Witness ==
    /\ ~al_mounted
    /\ al_started = 2
    /\ al_now = 7

----------------------------------------------------------------------------
(* The WebSocket connection of CrimeMap, checked under SpecMap *)

(* C25 as stated: while CrimeMap is mounted the connection opened on mount
   is the only one; no render closes it or opens another. *)
C25_Claim == ws_conn = 1

----------------------------------------------------------------------------
(* Properties of Chatbot, checked under SpecChat *)

(* The messages of a kind: typed by the user, or appended when a request
   settled. *)
Typed == {i \in 1..Len(messages) :
            messages[i].type = "user" /\ messages[i].text \in ChatInputs}

Settled == {i \in 1..Len(messages) :
              messages[i].type = "bot" /\ messages[i].text \in {"reply", "error"}}

(* C24: a handleSend that sends a request has a non-blank input and appends
   exactly the user message; a request that settles appends exactly one bot
   message; there is one user message for every request sent and one bot
   message for every request settled; and the history only grows at its
   end. *)
C24_HistoryAppendOnly ==
    /\ [][/\ IsPrefix(messages, messages')
          /\ ch_started' # ch_started =>
                 /\ Trim(input) # ""
                 /\ messages' = Append(messages, [type |-> "user", text |-> input])
          /\ ch_inflight' # ch_inflight /\ ch_started' = ch_started =>
                 /\ Len(messages') = Len(messages) + 1
                 /\ messages'[Len(messages')].type = "bot"]_vars
    /\ [](/\ Cardinality(Typed) = ch_started
          /\ Cardinality(Settled) = ch_started - Cardinality(ch_inflight))

(* Two requests have settled, one answered and one failed, with a FAQ
   between them. *)
C24_Witness ==
    /\ ch_started = 2
    /\ ch_inflight = {}
    /\ \E i, j, k \in 1..Len(messages) :
           /\ i < j /\ j < k
           /\ messages[i].text = "error"
           /\ messages[j].text = "faq.q"
           /\ messages[k].text = "reply"

(* C28 as stated: loading is true exactly while a chat request is in
   flight. *)
C28_Claim == ch_loading = (ch_inflight # {})

----------------------------------------------------------------------------
(* Properties of Dashboard, checked under SpecDashboard *)

Shown == <<stats, predictions, dash_hotspots>>

(* C30: stats, predictions and hotspots change only in the step in which
   the last of the three requests is answered, the other two having been
   answered; a load that ends in the catch branch changes none of them; both
   set loading to false, and loading always returns to false. *)
C30_AllOrNothing ==
    /\ [][/\ Shown' # Shown =>
                 /\ dash_req # <<>>
                 /\ Cardinality({k \in 1..3 : dash_req[k].state = "ok"}) = 2
                 /\ dash_errors' = dash_errors
                 /\ ~dash_loading'
          /\ dash_errors' # dash_errors =>
                 /\ Shown' = Shown
                 /\ ~dash_loading']_vars
    /\ (dash_loading ~> ~dash_loading)

(* A load has succeeded and the next one has failed. *)
C30_Witness ==
    /\ stats # 0
    /\ dash_errors = 1
    /\ dash_loads = 2
    /\ ~dash_loading

----------------------------------------------------------------------------
(* Properties of RoutePlanner, checked under SpecPlanner *)

Selected(type) ==
    IF type = "start" THEN selectedStartLocation ELSE selectedEndLocation

(* C22 as stated: when Use Current Location completes, the location shown
   for the endpoint is the entry of ALL_LOCATIONS nearest to the GPS
   position and the endpoint's coordinates are that entry's. *)
C22_Claim ==
    [][\A cb \in rp_pending :
          (cb.phase = "geocode" /\ cb \notin rp_pending') =>
              /\ (IF cb.type = "start" THEN selectedStartLocation'
                                       ELSE selectedEndLocation')
                     = Nearest(cb.pos)
              /\ (IF cb.type = "start" THEN formData'.start ELSE formData'.end)
                     = Nearest(cb.pos).lat]_vars

(* C29 as stated: the coordinates formData holds for each endpoint are those
   of the selection shown for it. *)
C29_Claim ==
    /\ formData.start = selectedStartLocation.lat
    /\ formData.end = selectedEndLocation.lat

----------------------------------------------------------------------------
(* Properties of ReportForm, checked under SpecReport *)

(* C26: every createReport call carries a non-empty crime_type and
   description; handleSubmit has called onClose exactly once per call that
   succeeded; and the step in which a call fails leaves the form as open as
   it was, leaves its field values unchanged and ends with submitting
   false. *)
C26_SubmitContract ==
    /\ [](\A c \in rf_calls : c.data.crime_type # "" /\ c.data.description # "")
    /\ [](rf_closes = Cardinality({d \in rf_done : d.ok}))
    /\ [][\A c \in rf_calls :
             (c \notin rf_calls' /\ [id |-> c.id, ok |-> FALSE] \in rf_done') =>
                 /\ rf_open' = rf_open
                 /\ rf_form' = rf_form
                 /\ submitting' = FALSE]_vars

(* A submission has failed and the form is still open with its fields
   filled, ready to be submitted again. *)
C26_Witness ==
    /\ \E d \in rf_done : ~d.ok
    /\ rf_open
    /\ rf_form.crime_type # ""
    /\ rf_form.description # ""
    /\ ~submitting
    /\ rf_closes = 0
    /\ rf_toast = "failed"

====
